---- MODULE Spec2Model ----
(***************************************************************************)
(* Model of the wallace_rs log decoder: the type-code resolver             *)
(* (get_type_size), the field decoder (parse_fields) and the message       *)
(* framer (extract_messages) of src/src/parser/mod.rs.                     *)
(*                                                                         *)
(* Representation.  A type code is a sequence of one-character strings     *)
(* (<<"2","s">> is "2s"), so that the resolver can look at its characters. *)
(* A field name is a string (the code only compares names).  A rendered    *)
(* value or a registry key is a Rust String: a sequence of Unicode code    *)
(* points (<<52,50>> is "42").  A payload or a stream is a sequence of     *)
(* bytes 0..255.  A warning is a record holding the kind of its format     *)
(* string and the arguments formatted into it.                             *)
(***************************************************************************)
EXTENDS Integers, Sequences, FiniteSets, TLC

VARIABLES
    payload,              \* parse_fields: the payload argument
    field_defs,           \* parse_fields: the field_defs argument
    pf,                   \* parse_fields: its frame (pc, loop index, locals)
    stream,               \* the reader: the bytes it holds
    registry,             \* extract_messages: the registry argument
    pos,                  \* the reader: bytes consumed so far
    last_read,            \* the reader: bytes asked for and delivered by the latest read
    st,                   \* extract_messages: its position in the framing loop
    log_type,             \* extract_messages: local log_type
    length,               \* extract_messages: local length
    messages,             \* extract_messages: local messages
    warnings,             \* extract_messages: local warnings
    total_skipped_fields, \* extract_messages: local total_skipped_fields
    result                \* extract_messages: what the caller receives

vars == <<payload, field_defs, pf, stream, registry, pos, last_read, st,
          log_type, length, messages, warnings, total_skipped_fields, result>>

pfVars == <<payload, field_defs, pf>>
exVars == <<stream, registry, pos, last_read, st, log_type, length,
            messages, warnings, total_skipped_fields, result>>

\* Option::None of an Option<usize>.
None == -1

(***************************************************************************)
(* Bounds of the model.                                                    *)
(***************************************************************************)
MaxFields == 2
MaxPayload == 3
MaxMsgs == 2
MaxFramePayload == 3
MaxCodeLen == 3

(***************************************************************************)
(* Strings and numbers.                                                    *)
(***************************************************************************)
DigitChars == <<"0", "1", "2", "3", "4", "5", "6", "7", "8", "9">>

IsDigit(c) == \E d \in 1..10 : DigitChars[d] = c

DigitValue(c) == (CHOOSE d \in 1..10 : DigitChars[d] = c) - 1

\* s.chars().all(|c| c == ch); true of the empty string.
AllChars(s, ch) == \A k \in 1..Len(s) : s[k] = ch

\* s.ends_with("s")
EndsWithS(s) == Len(s) > 0 /\ s[Len(s)] = "s"

RECURSIVE DigitsValue(_)
DigitsValue(s) ==
    IF Len(s) = 0 THEN 0
    ELSE 10 * DigitsValue(SubSeq(s, 1, Len(s) - 1)) + DigitValue(s[Len(s)])

\* str::parse::<usize>: an optional '+', then one or more decimal digits.
ParseUsize(s) ==
    LET body == IF Len(s) > 0 /\ s[1] = "+" THEN Tail(s) ELSE s
    IN  IF Len(body) = 0 \/ \E k \in 1..Len(body) : ~IsDigit(body[k])
        THEN None
        ELSE DigitsValue(body)

\* u16::to_string and friends for a value that fits the checker's integers.
RECURSIVE NatToString(_)
NatToString(n) ==
    IF n < 10 THEN <<48 + n>>
    ELSE NatToString(n \div 10) \o <<48 + (n % 10)>>

\* get_type_size with "H" and "h" in the one-byte arm.
get_type_size_NarrowH(type_str) ==
    IF type_str \in {<<"Q">>, <<"q">>, <<"d">>} THEN 8
    ELSE IF type_str \in {<<"I">>, <<"i">>, <<"f">>} THEN 4
    ELSE IF type_str \in {<<"B">>, <<"b">>, <<"H">>, <<"h">>} THEN 1
    ELSE IF AllChars(type_str, "c") THEN Len(type_str)
    ELSE IF EndsWithS(type_str) THEN ParseUsize(SubSeq(type_str, 1, Len(type_str) - 1))
    ELSE IF AllChars(type_str, "B") THEN Len(type_str)
    ELSE IF AllChars(type_str, "b") THEN Len(type_str)
    ELSE None

\* get_type_size with an arm for a type code the decoder has no arm for.
get_type_size_KnowsX(type_str) ==
    IF type_str \in {<<"Q">>, <<"q">>, <<"d">>} THEN 8
    ELSE IF type_str \in {<<"I">>, <<"i">>, <<"f">>} THEN 4
    ELSE IF type_str \in {<<"H">>, <<"h">>} THEN 2
    ELSE IF type_str \in {<<"B">>, <<"b">>, <<"x">>} THEN 1
    ELSE IF AllChars(type_str, "c") THEN Len(type_str)
    ELSE IF EndsWithS(type_str) THEN ParseUsize(SubSeq(type_str, 1, Len(type_str) - 1))
    ELSE IF AllChars(type_str, "B") THEN Len(type_str)
    ELSE IF AllChars(type_str, "b") THEN Len(type_str)
    ELSE None

(***************************************************************************)
(* get_type_size: the byte width of a type code, or None.  The arms are    *)
(* tried in the order of the match.                                        *)
(***************************************************************************)
get_type_size(type_str) ==
    IF type_str \in {<<"Q">>, <<"q">>, <<"d">>} THEN 8
    ELSE IF type_str \in {<<"I">>, <<"i">>, <<"f">>} THEN 4
    ELSE IF type_str \in {<<"H">>, <<"h">>} THEN 2
    ELSE IF type_str \in {<<"B">>, <<"b">>} THEN 1
    ELSE IF AllChars(type_str, "c") THEN Len(type_str)
    ELSE IF EndsWithS(type_str) THEN ParseUsize(SubSeq(type_str, 1, Len(type_str) - 1))
    ELSE IF AllChars(type_str, "B") THEN Len(type_str)
    ELSE IF AllChars(type_str, "b") THEN Len(type_str)
    ELSE None

(***************************************************************************)
(* Rendering of values.                                                    *)
(***************************************************************************)
Reverse(s) == [k \in 1..Len(s) |-> s[Len(s) + 1 - k]]

\* Long division by ten of a big-endian base-256 numeral: <<quotient, remainder>>.
RECURSIVE DivTen(_, _)
DivTen(be, carry) ==
    IF be = <<>> THEN <<<<>>, carry>>
    ELSE LET cur  == carry * 256 + Head(be)
             rest == DivTen(Tail(be), cur % 10)
         IN  <<(<<cur \div 10>> \o rest[1]), rest[2]>>

\* to_string of an unsigned integer given by its big-endian bytes.
RECURSIVE UnsignedToString(_)
UnsignedToString(be) ==
    LET dm == DivTen(be, 0)
    IN  IF \A k \in 1..Len(dm[1]) : dm[1][k] = 0
        THEN <<48 + dm[2]>>
        ELSE UnsignedToString(dm[1]) \o <<48 + dm[2]>>

RECURSIVE AddOne(_)
AddOne(le) ==
    IF le = <<>> THEN <<>>
    ELSE IF Head(le) = 255 THEN <<0>> \o AddOne(Tail(le))
    ELSE <<Head(le) + 1>> \o Tail(le)

\* read_uN::<LittleEndian>()?.to_string()
ReadUnsigned(le) == UnsignedToString(Reverse(le))

\* A signed read that takes the bytes as an unsigned value.
ReadSigned_Unsigned(le) == UnsignedToString(Reverse(le))

\* read_iN::<LittleEndian>()?.to_string(): two's complement, '-' is code point 45.
ReadSigned(le) ==
    IF le[Len(le)] >= 128
    THEN <<45>> \o UnsignedToString(Reverse(AddOne([k \in 1..Len(le) |-> 255 - le[k]])))
    ELSE UnsignedToString(Reverse(le))

\* read_f32 / read_f64 followed by to_string.  The decimal text of a float is
\* left uninterpreted: a marker (minus the width) followed by the bit pattern.
ReadFloat(le) == <<0 - Len(le)>> \o le

IsCont(s, k, lo, hi) == k <= Len(s) /\ s[k] >= lo /\ s[k] <= hi

\* String::from_utf8_lossy: every maximal invalid part becomes U+FFFD (65533).
RECURSIVE Utf8Lossy(_, _)
Utf8Lossy(s, k) ==
    IF k > Len(s) THEN <<>>
    ELSE LET b0 == s[k]
             lo2 == IF b0 = 224 THEN 160 ELSE IF b0 = 240 THEN 144 ELSE 128
             hi2 == IF b0 = 237 THEN 159 ELSE IF b0 = 244 THEN 143 ELSE 191
         IN
         IF b0 < 128 THEN <<b0>> \o Utf8Lossy(s, k + 1)
         ELSE IF b0 >= 194 /\ b0 <= 223 THEN
             IF IsCont(s, k + 1, 128, 191)
             THEN <<(b0 - 192) * 64 + (s[k + 1] - 128)>> \o Utf8Lossy(s, k + 2)
             ELSE <<65533>> \o Utf8Lossy(s, k + 1)
         ELSE IF b0 >= 224 /\ b0 <= 239 THEN
             IF ~IsCont(s, k + 1, lo2, hi2) THEN <<65533>> \o Utf8Lossy(s, k + 1)
             ELSE IF ~IsCont(s, k + 2, 128, 191) THEN <<65533>> \o Utf8Lossy(s, k + 2)
             ELSE <<(b0 - 224) * 4096 + (s[k + 1] - 128) * 64 + (s[k + 2] - 128)>>
                  \o Utf8Lossy(s, k + 3)
         ELSE IF b0 >= 240 /\ b0 <= 244 THEN
             IF ~IsCont(s, k + 1, lo2, hi2) THEN <<65533>> \o Utf8Lossy(s, k + 1)
             ELSE IF ~IsCont(s, k + 2, 128, 191) THEN <<65533>> \o Utf8Lossy(s, k + 2)
             ELSE IF ~IsCont(s, k + 3, 128, 191) THEN <<65533>> \o Utf8Lossy(s, k + 3)
             ELSE <<(b0 - 240) * 262144 + (s[k + 1] - 128) * 4096
                    + (s[k + 2] - 128) * 64 + (s[k + 3] - 128)>> \o Utf8Lossy(s, k + 4)
         ELSE <<65533>> \o Utf8Lossy(s, k + 1)

\* .trim_end_matches('\0')
RECURSIVE TrimEndNul(_)
TrimEndNul(t) ==
    IF Len(t) > 0 /\ t[Len(t)] = 0 THEN TrimEndNul(SubSeq(t, 1, Len(t) - 1)) ELSE t

\* String::from_utf8_lossy(&buf).trim_end_matches('\0').to_string()
ReadText(buf) == TrimEndNul(Utf8Lossy(buf, 1))

HexDigit(n) == IF n < 10 THEN 48 + n ELSE 55 + n

\* buf.iter().map(|b| format!("{:02X}", b)).collect::<Vec<_>>().join(" ")
RECURSIVE ReadHex(_)
ReadHex(buf) ==
    IF buf = <<>> THEN <<>>
    ELSE <<HexDigit(Head(buf) \div 16), HexDigit(Head(buf) % 16)>>
         \o (IF Len(buf) > 1 THEN <<32>> \o ReadHex(Tail(buf)) ELSE <<>>)

\* "[error]" and "[unsupported]"
ErrorText == <<91, 101, 114, 114, 111, 114, 93>>
UnsupportedText == <<91, 117, 110, 115, 117, 112, 112, 111, 114, 116, 101, 100, 93>>

(***************************************************************************)
(* parse_fields.  Its frame s holds the program point pc ("idle": not      *)
(* called, "loop": at the head of the for loop, "break": the loop was left *)
(* by break, "ok" / "err": returned Ok / Err), the index i of the next     *)
(* field and the locals cursor, parsed, warnings and skip_count.           *)
(***************************************************************************)
IdleFrame == [pc |-> "idle", i |-> 1, cursor |-> 0, parsed |-> <<>>,
              warnings |-> <<>>, skip_count |-> 0]

\* The frame on entry: lines 96-99.
EntryFrame == [IdleFrame EXCEPT !.pc = "loop"]

\* IsSkipName with "RESERVED" left out of the pattern.
IsSkipName_NoReserved(name) == name \in {"TRASH", "PADDING"}

\* matches!(field.name.as_str(), "TRASH" | "PADDING" | "RESERVED")
IsSkipName(name) == name \in {"TRASH", "PADDING", "RESERVED"}

\* matches!(field.r#type.as_str(), "c" if field.name == "FILE_CONTENTS")
IsFileContents(field) == field.type = <<"c">> /\ field.name = "FILE_CONTENTS"

\* The branch of the loop body that field takes at cursor position current_pos.
Branch(field, current_pos, p) ==
    LET size == get_type_size(field.type)
    IN  IF IsSkipName(field.name)
        THEN (IF size # None THEN "skip" ELSE "skip_unknown")
        ELSE IF size # None
             THEN (IF current_pos + size > Len(p) THEN "overrun" ELSE "read")
             ELSE (IF ~IsFileContents(field) THEN "unresolvable" ELSE "read")

\* SkipField without the seek of line 115.
SkipField_NoSeek(s, field, p) ==
    LET size_to_skip == get_type_size(field.type)
    IN  IF s.cursor + size_to_skip > Len(p)
        THEN [s EXCEPT !.warnings = Append(@, [kind |-> "SkipExceeds", name |-> field.name,
                                               type |-> field.type, size |-> size_to_skip,
                                               payload_len |-> Len(p),
                                               remaining |-> Len(p) - s.cursor]),
                       !.cursor = Len(p),
                       !.skip_count = @ + 1,
                       !.i = @ + 1]
        ELSE [s EXCEPT !.skip_count = @ + 1,
                       !.i = @ + 1]

\* SkipField without the count of line 117 when the skip was clamped.
SkipField_ClampUncounted(s, field, p) ==
    LET size_to_skip == get_type_size(field.type)
    IN  IF s.cursor + size_to_skip > Len(p)
        THEN [s EXCEPT !.warnings = Append(@, [kind |-> "SkipExceeds", name |-> field.name,
                                               type |-> field.type, size |-> size_to_skip,
                                               payload_len |-> Len(p),
                                               remaining |-> Len(p) - s.cursor]),
                       !.cursor = Len(p),
                       !.i = @ + 1]
        ELSE [s EXCEPT !.cursor = @ + size_to_skip,
                       !.skip_count = @ + 1,
                       !.i = @ + 1]

\* SkipField without the bounds check of line 109: the seek of line 115 always.
SkipField_NoClamp(s, field, p) ==
    LET size_to_skip == get_type_size(field.type)
    IN  [s EXCEPT !.cursor = @ + size_to_skip,
                  !.skip_count = @ + 1,
                  !.i = @ + 1]

\* Lines 106-118: a skip-only field whose size is known.
SkipField(s, field, p) ==
    LET size_to_skip == get_type_size(field.type)
    IN  IF s.cursor + size_to_skip > Len(p)
        THEN [s EXCEPT !.warnings = Append(@, [kind |-> "SkipExceeds", name |-> field.name,
                                               type |-> field.type, size |-> size_to_skip,
                                               payload_len |-> Len(p),
                                               remaining |-> Len(p) - s.cursor]),
                       !.cursor = Len(p),
                       !.skip_count = @ + 1,
                       !.i = @ + 1]
        ELSE [s EXCEPT !.cursor = @ + size_to_skip,
                       !.skip_count = @ + 1,
                       !.i = @ + 1]

\* SkipUnknown counting the field as skipped.
SkipUnknown_Counts(s, field, p) ==
    [s EXCEPT !.warnings = Append(@, [kind |-> "SkipUnknownSize", name |-> field.name,
                                      type |-> field.type]),
              !.skip_count = @ + 1,
              !.i = @ + 1]

\* SkipUnknown leaving the loop (break for continue).
SkipUnknown_Stops(s, field, p) ==
    [s EXCEPT !.warnings = Append(@, [kind |-> "SkipUnknownSize", name |-> field.name,
                                      type |-> field.type]),
              !.pc = "break"]

\* Lines 119-128: a skip-only field whose size is unknown.
SkipUnknown(s, field, p) ==
    [s EXCEPT !.warnings = Append(@, [kind |-> "SkipUnknownSize", name |-> field.name,
                                      type |-> field.type]),
              !.i = @ + 1]

\* Overrun going on to the next field (continue for break).
Overrun_Continues(s, field, p) ==
    [s EXCEPT !.warnings = Append(@, [kind |-> "ReadExceeds", name |-> field.name,
                                      type |-> field.type,
                                      size |-> get_type_size(field.type),
                                      payload_len |-> Len(p)]),
              !.i = @ + 1]

\* Lines 137-145: the field would read past the payload end.
Overrun(s, field, p) ==
    [s EXCEPT !.warnings = Append(@, [kind |-> "ReadExceeds", name |-> field.name,
                                      type |-> field.type,
                                      size |-> get_type_size(field.type),
                                      payload_len |-> Len(p)]),
              !.pc = "break"]

\* Unresolvable going on to the next field (continue for break).
Unresolvable_Continues(s, field, p) ==
    [s EXCEPT !.warnings = Append(@, [kind |-> "UnknownSize", name |-> field.name,
                                      type |-> field.type]),
              !.i = @ + 1]

\* Lines 146-153: the size of the field is unknown.
Unresolvable(s, field, p) ==
    [s EXCEPT !.warnings = Append(@, [kind |-> "UnknownSize", name |-> field.name,
                                      type |-> field.type]),
              !.pc = "break"]

\* A read of n bytes at the cursor (read_exact and the byteorder readers): the
\* bytes and the new position, or ok = FALSE (UnexpectedEof) when fewer remain.
CursorRead(p, cursor, n) ==
    IF cursor + n > Len(p)
    THEN [ok |-> FALSE, buf |-> <<>>, cursor |-> cursor]
    ELSE [ok |-> TRUE, buf |-> SubSeq(p, cursor + 1, cursor + n), cursor |-> cursor + n]

\* The text a match arm makes of the bytes it read.
Render(how, buf) ==
    IF how = "unsigned" THEN ReadUnsigned(buf)
    ELSE IF how = "signed" THEN ReadSigned(buf)
    ELSE IF how = "float" THEN ReadFloat(buf)
    ELSE IF how = "text" THEN ReadText(buf)
    ELSE ReadHex(buf)

\* A match arm that reads n bytes at the cursor and renders them.
ReadAs(how, p, cursor, n) ==
    LET r == CursorRead(p, cursor, n)
    IN  [ok |-> r.ok, val |-> IF r.ok THEN Render(how, r.buf) ELSE <<>>,
         cursor |-> r.cursor, warn |-> <<>>]

\* Lines 156-223: the match on the type code, its arms in order.
ReadValue(field, p, cursor) ==
    LET t == field.type
    IN  IF t = <<"Q">> THEN ReadAs("unsigned", p, cursor, 8)
        ELSE IF t = <<"q">> THEN ReadAs("signed", p, cursor, 8)
        ELSE IF t = <<"I">> THEN ReadAs("unsigned", p, cursor, 4)
        ELSE IF t = <<"H">> THEN ReadAs("unsigned", p, cursor, 2)
        ELSE IF t = <<"B">> THEN ReadAs("unsigned", p, cursor, 1)
        ELSE IF t = <<"b">> THEN ReadAs("signed", p, cursor, 1)
        ELSE IF t = <<"i">> THEN ReadAs("signed", p, cursor, 4)
        ELSE IF t = <<"h">> THEN ReadAs("signed", p, cursor, 2)
        ELSE IF t = <<"f">> THEN ReadAs("float", p, cursor, 4)
        ELSE IF t = <<"d">> THEN ReadAs("float", p, cursor, 8)
        ELSE IF IsFileContents(field)
             THEN [ok |-> TRUE, val |-> ReadText(SubSeq(p, cursor + 1, Len(p))),
                   cursor |-> IF cursor > Len(p) THEN cursor ELSE Len(p), warn |-> <<>>]
        ELSE IF AllChars(t, "c") THEN ReadAs("text", p, cursor, Len(t))
        ELSE IF EndsWithS(t)
             THEN (IF get_type_size(t) # None
                   THEN ReadAs("text", p, cursor, get_type_size(t))
                   ELSE [ok |-> TRUE, val |-> ErrorText, cursor |-> cursor,
                         warn |-> <<[kind |-> "InternalError", type |-> t,
                                     name |-> field.name]>>])
        ELSE IF AllChars(t, "B") \/ AllChars(t, "b")
             THEN ReadAs("hex", p, cursor, Len(t))
        ELSE [ok |-> TRUE, val |-> UnsupportedText, cursor |-> cursor,
              warn |-> <<[kind |-> "Unsupported", type |-> t, name |-> field.name]>>]

\* Lines 156-224: read the value and push the pair; a failed read returns Err.
ReadField(s, field, p) ==
    LET r == ReadValue(field, p, s.cursor)
    IN  IF ~r.ok
        THEN [s EXCEPT !.pc = "err"]
        ELSE [s EXCEPT !.cursor = r.cursor,
                       !.warnings = @ \o r.warn,
                       !.parsed = Append(@, <<field.name, r.val>>),
                       !.i = @ + 1]

\* One iteration of the for loop: lines 101-225.
FieldStep(s, field, p) ==
    LET b == Branch(field, s.cursor, p)
    IN  IF b = "skip" THEN SkipField(s, field, p)
        ELSE IF b = "skip_unknown" THEN SkipUnknown(s, field, p)
        ELSE IF b = "overrun" THEN Overrun(s, field, p)
        ELSE IF b = "unresolvable" THEN Unresolvable(s, field, p)
        ELSE ReadField(s, field, p)

\* Finish with the comparison of line 228 off by one (<= for <).
Finish_WarnsWhenConsumed(s, p) ==
    IF s.cursor <= Len(p)
    THEN [s EXCEPT !.warnings = Append(@, [kind |-> "NotFullyConsumed",
                                           payload_len |-> Len(p), read |-> s.cursor,
                                           remaining |-> Len(p) - s.cursor]),
                   !.pc = "ok"]
    ELSE [s EXCEPT !.warnings = Append(@, [kind |-> "ReadPast", payload_len |-> Len(p),
                                           read |-> s.cursor]),
                   !.pc = "ok"]

\* Finish reporting the payload length as the remaining byte count.
Finish_RemainingIsLength(s, p) ==
    IF s.cursor < Len(p)
    THEN [s EXCEPT !.warnings = Append(@, [kind |-> "NotFullyConsumed",
                                           payload_len |-> Len(p), read |-> s.cursor,
                                           remaining |-> Len(p)]),
                   !.pc = "ok"]
    ELSE [s EXCEPT !.pc = "ok"]

\* Finish returning at once when the loop was left by a break.
Finish_SilentAfterBreak(s, p) ==
    IF s.pc # "break" /\ s.cursor < Len(p)
    THEN [s EXCEPT !.warnings = Append(@, [kind |-> "NotFullyConsumed",
                                           payload_len |-> Len(p), read |-> s.cursor,
                                           remaining |-> Len(p) - s.cursor]),
                   !.pc = "ok"]
    ELSE [s EXCEPT !.pc = "ok"]

\* Lines 227-244: the check after the loop, and the return.
Finish(s, p) ==
    IF s.cursor < Len(p)
    THEN [s EXCEPT !.warnings = Append(@, [kind |-> "NotFullyConsumed",
                                           payload_len |-> Len(p), read |-> s.cursor,
                                           remaining |-> Len(p) - s.cursor]),
                   !.pc = "ok"]
    ELSE IF s.cursor > Len(p)
    THEN [s EXCEPT !.warnings = Append(@, [kind |-> "ReadPast", payload_len |-> Len(p),
                                           read |-> s.cursor]),
                   !.pc = "ok"]
    ELSE [s EXCEPT !.pc = "ok"]

InLoop(s, defs) == s.pc = "loop" /\ s.i <= Len(defs)

AtExit(s, defs) == s.pc = "break" \/ (s.pc = "loop" /\ s.i > Len(defs))

\* parse_fields run from frame s to its return.
RECURSIVE RunFrom(_, _, _)
RunFrom(s, p, defs) ==
    IF InLoop(s, defs) THEN RunFrom(FieldStep(s, defs[s.i], p), p, defs)
    ELSE IF AtExit(s, defs) THEN Finish(s, p)
    ELSE s

\* parse_fields(payload, field_defs): the frame at its return.
parse_fields(p, defs) == RunFrom(EntryFrame, p, defs)

(***************************************************************************)
(* The inputs the model is checked on.                                     *)
(***************************************************************************)
Seqs(S, n) == UNION {[1..k -> S] : k \in 0..n}

\* Type codes: "H", "b", "c", "2s", "BB" and the unresolvable "x".
TypeCodes == {<<"H">>, <<"b">>, <<"c">>, <<"2", "s">>, <<"B", "B">>, <<"x">>}

FieldDefs ==
    [name : {"A", "TRASH", "FILE_CONTENTS"}, type : TypeCodes]
    \cup [name : {"PADDING", "RESERVED"}, type : {<<"H">>, <<"x">>}]

Schemas == Seqs(FieldDefs, MaxFields)

ByteVals == {0, 42}

Payloads == Seqs(ByteVals, MaxPayload)

\* The registries: keys are the decimal text of the type ID.
HelloDef == [name |-> "HELLO",
             fields |-> <<[name |-> "A", type |-> <<"H">>],
                          [name |-> "B", type |-> <<"B">>]>>]

SkippyDef == [name |-> "SKIPPY",
              fields |-> <<[name |-> "TRASH", type |-> <<"B">>],
                           [name |-> "PADDING", type |-> <<"x">>],
                           [name |-> "FILE_CONTENTS", type |-> <<"c">>]>>]

OddDef == [name |-> "ODD",
           fields |-> <<[name |-> "N", type |-> <<"b">>],
                        [name |-> "RESERVED", type |-> <<"H">>],
                        [name |-> "X", type |-> <<"x">>]>>]

\* The second registry has a key "01", which no type ID is rendered as.
Registries ==
    { (<<49>> :> HelloDef) @@ (<<50, 53, 56>> :> SkippyDef),
      (<<48, 49>> :> HelloDef) @@ (<<49>> :> OddDef) @@ (<<50, 53, 56>> :> HelloDef) }

TypeIds == {1, 2, 258}

FrameByteVals == {42}

LE16(n) == <<n % 256, n \div 256>>

Frame(t, p) == LE16(t) \o LE16(Len(p)) \o p

Frames == {Frame(t, p) : t \in TypeIds, p \in Seqs(FrameByteVals, MaxFramePayload)}

RECURSIVE Flatten(_)
Flatten(ss) == IF ss = <<>> THEN <<>> ELSE Head(ss) \o Flatten(Tail(ss))

Header == <<0, 0, 0, 0>>

\* Every stream of up to MaxMsgs framed messages, cut off at every length.
Streams ==
    LET whole == {Header \o Flatten(fs) : fs \in Seqs(Frames, MaxMsgs)}
    IN  UNION {{SubSeq(w, 1, k) : k \in 0..Len(w)} : w \in whole}

(***************************************************************************)
(* The reader (std::io::Read with read_exact, as byteorder uses it).       *)
(***************************************************************************)
Min(a, b) == IF a < b THEN a ELSE b

\* The outcomes of read_exact for want bytes at offset at: all of them; or
\* UnexpectedEof after the bytes that were left; or, from a failing reader,
\* another error kind.  A read of zero bytes never calls the reader.
ReadOutcomes(bytes, at, want) ==
    LET avail == Len(bytes) - at
    IN  (IF avail >= want
         THEN {[ok |-> TRUE, kind |-> "none", got |-> want]}
         ELSE {[ok |-> FALSE, kind |-> "UnexpectedEof", got |-> avail]})
        \cup (IF want > 0
              THEN {[ok |-> FALSE, kind |-> "Other", got |-> g] : g \in 0..Min(avail, want - 1)}
              ELSE {})

Bytes(at, n) == SubSeq(stream, at + 1, at + n)

\* u16 from little-endian bytes.
U16(b) == b[1] + 256 * b[2]

IoError(kind) == [kind |-> "Err", error |-> [type |-> "Io", io |-> kind]]

\* A failure that hands the partial output back along with the error.
Fail_KeepsPartial(error) ==
    /\ st' = "Failed"
    /\ result' = [kind |-> "Err", error |-> error.error, messages |-> messages,
                  warnings |-> warnings, skipped |-> total_skipped_fields]

Fail(error) ==
    /\ st' = "Failed"
    /\ result' = error

\* Lines 36-38 and 88: Ok((messages, warnings, total_skipped_fields))
OkResult == [kind |-> "Ok", messages |-> messages, warnings |-> warnings,
             skipped |-> total_skipped_fields]

\* OnReadError with UnexpectedEof ending the loop wherever it happens.
OnReadError_AnyEofBreaks(where, kind) ==
    IF kind = "UnexpectedEof" THEN "Done" ELSE "Failed"

\* Where a failed read leads: UnexpectedEof on the type ID breaks out of the loop
\* (line 45); every other failure returns the error (lines 40, 46, 50, 53).
OnReadError(where, kind) ==
    IF where = "type_id" /\ kind = "UnexpectedEof" THEN "Done" ELSE "Failed"

ReadFailed(where, kind) ==
    IF OnReadError(where, kind) = "Done"
    THEN st' = "Done" /\ result' = OkResult
    ELSE Fail(IoError(kind))

\* UnknownTypeWarnings with the warning of line 81 switched on.
UnknownTypeWarnings_Warns(t) == <<[kind |-> "UnknownType", log_type |-> t]>>

\* Lines 79-85: a type ID without a registry entry adds no warning.
UnknownTypeWarnings(t) == <<>>

(***************************************************************************)
(* extract_messages.                                                       *)
(***************************************************************************)
\* Line 40: the four header bytes.
ReadHeader ==
    /\ st = "AwaitingHeader"
    /\ \E r \in ReadOutcomes(stream, pos, 4) :
          /\ pos' = pos + r.got
          /\ last_read' = [want |-> 4, got |-> r.got]
          /\ IF r.ok
             THEN st' = "AwaitingTypeId" /\ UNCHANGED result
             ELSE ReadFailed("header", r.kind)
    /\ UNCHANGED <<pfVars, stream, registry, log_type, length, messages, warnings,
                   total_skipped_fields>>

\* Lines 43-47: the type ID; UnexpectedEof ends the loop and returns Ok (line 88).
ReadTypeId ==
    /\ st = "AwaitingTypeId"
    /\ \E r \in ReadOutcomes(stream, pos, 2) :
          /\ pos' = pos + r.got
          /\ last_read' = [want |-> 2, got |-> r.got]
          /\ IF r.ok
             THEN /\ log_type' = U16(Bytes(pos, 2))
                  /\ st' = "ReadingLength"
                  /\ UNCHANGED result
             ELSE ReadFailed("type_id", r.kind) /\ UNCHANGED log_type
    /\ UNCHANGED <<pfVars, stream, registry, length, messages, warnings,
                   total_skipped_fields>>

\* Line 50: the payload length.
ReadLength ==
    /\ st = "ReadingLength"
    /\ \E r \in ReadOutcomes(stream, pos, 2) :
          /\ pos' = pos + r.got
          /\ last_read' = [want |-> 2, got |-> r.got]
          /\ IF r.ok
             THEN /\ length' = U16(Bytes(pos, 2))
                  /\ st' = "ReadingPayload"
                  /\ UNCHANGED result
             ELSE ReadFailed("length", r.kind) /\ UNCHANGED length
    /\ UNCHANGED <<pfVars, stream, registry, log_type, messages, warnings,
                   total_skipped_fields>>

\* log_type.to_string()
LogTypeKey(t) == NatToString(t)

\* Lines 51-58 and 79-85: the payload, then the registry lookup; a known type
\* enters parse_fields, an unknown one goes back to the head of the loop.
ReadPayload ==
    /\ st = "ReadingPayload"
    /\ \E r \in ReadOutcomes(stream, pos, length) :
          /\ pos' = pos + r.got
          /\ last_read' = [want |-> length, got |-> r.got]
          /\ IF ~r.ok
             THEN /\ ReadFailed("payload", r.kind)
                  /\ UNCHANGED <<pfVars, log_type, length, warnings>>
             ELSE IF LogTypeKey(log_type) \in DOMAIN registry
             THEN /\ st' = "Decoding"
                  /\ payload' = Bytes(pos, length)
                  /\ field_defs' = registry[LogTypeKey(log_type)].fields
                  /\ pf' = EntryFrame
                  /\ UNCHANGED <<log_type, length, result, warnings>>
             ELSE /\ st' = "AwaitingTypeId"
                  /\ warnings' = warnings \o UnknownTypeWarnings(log_type)
                  /\ log_type' = 0
                  /\ length' = 0
                  /\ UNCHANGED <<pfVars, result>>
    /\ UNCHANGED <<stream, registry, messages, total_skipped_fields>>

\* format!("log_type {} ({}): {}", log_type, def.name, warn)
\* A prefix that names the type ID twice and leaves the registry name out.
Prefixed_NoName(t, name, warn) == [log_type |-> t, name |-> NatToString(t), warn |-> warn]

Prefixed(t, name, warn) == [log_type |-> t, name |-> name, warn |-> warn]

\* Lines 58-78: the result of parse_fields is taken up.
Collect ==
    /\ st = "Decoding"
    /\ pf.pc \in {"ok", "err"}
    /\ LET def == registry[LogTypeKey(log_type)]
       IN  IF pf.pc = "ok"
           THEN /\ total_skipped_fields' = total_skipped_fields + pf.skip_count
                /\ messages' = Append(messages, [log_type |-> log_type, name |-> def.name,
                                                 fields |-> pf.parsed])
                /\ warnings' = warnings \o
                       [k \in 1..Len(pf.warnings) |->
                           Prefixed(log_type, def.name, pf.warnings[k])]
                /\ st' = "AwaitingTypeId"
                /\ UNCHANGED result
           ELSE /\ Fail([kind |-> "Err",
                         error |-> [type |-> "ParsingError", log_type |-> log_type,
                                    name |-> def.name]])
                /\ UNCHANGED <<messages, warnings, total_skipped_fields>>
    /\ pf' = IdleFrame
    /\ payload' = <<>>
    /\ field_defs' = <<>>
    /\ log_type' = 0
    /\ length' = 0
    /\ UNCHANGED <<stream, registry, pos, last_read>>

(***************************************************************************)
(* parse_fields, one action for each way through the loop body.            *)
(***************************************************************************)
Takes(b) == InLoop(pf, field_defs) /\ Branch(field_defs[pf.i], pf.cursor, payload) = b

PF_Skip ==
    /\ Takes("skip")
    /\ pf' = SkipField(pf, field_defs[pf.i], payload)
    /\ UNCHANGED <<payload, field_defs, exVars>>

PF_SkipUnknown ==
    /\ Takes("skip_unknown")
    /\ pf' = SkipUnknown(pf, field_defs[pf.i], payload)
    /\ UNCHANGED <<payload, field_defs, exVars>>

PF_Overrun ==
    /\ Takes("overrun")
    /\ pf' = Overrun(pf, field_defs[pf.i], payload)
    /\ UNCHANGED <<payload, field_defs, exVars>>

PF_Unresolvable ==
    /\ Takes("unresolvable")
    /\ pf' = Unresolvable(pf, field_defs[pf.i], payload)
    /\ UNCHANGED <<payload, field_defs, exVars>>

PF_Read ==
    /\ Takes("read")
    /\ pf' = ReadField(pf, field_defs[pf.i], payload)
    /\ UNCHANGED <<payload, field_defs, exVars>>

PF_Return ==
    /\ AtExit(pf, field_defs)
    /\ pf' = Finish(pf, payload)
    /\ UNCHANGED <<payload, field_defs, exVars>>

(***************************************************************************)
(* Specifications.  Spec: extract_messages on a stream and a registry.     *)
(* SpecPF: parse_fields called on its own on a payload and a schema.       *)
(***************************************************************************)
Running == [kind |-> "Running"]

Init ==
    /\ stream \in Streams
    /\ registry \in Registries
    /\ pos = 0
    /\ last_read = [want |-> 0, got |-> 0]
    /\ st = "AwaitingHeader"
    /\ log_type = 0
    /\ length = 0
    /\ messages = <<>>
    /\ warnings = <<>>
    /\ total_skipped_fields = 0
    /\ result = Running
    /\ payload = <<>>
    /\ field_defs = <<>>
    /\ pf = IdleFrame

NextPF ==
    \/ PF_Skip
    \/ PF_SkipUnknown
    \/ PF_Overrun
    \/ PF_Unresolvable
    \/ PF_Read
    \/ PF_Return

Next ==
    \/ ReadHeader
    \/ ReadTypeId
    \/ ReadLength
    \/ ReadPayload
    \/ Collect
    \/ NextPF

Spec == Init /\ [][Next]_vars

InitPF ==
    /\ payload \in Payloads
    /\ field_defs \in Schemas
    /\ pf = EntryFrame
    /\ stream = <<>>
    /\ registry = <<>>
    /\ pos = 0
    /\ last_read = [want |-> 0, got |-> 0]
    /\ st = "Direct"
    /\ log_type = 0
    /\ length = 0
    /\ messages = <<>>
    /\ warnings = <<>>
    /\ total_skipped_fields = 0
    /\ result = Running

SpecPF == InitPF /\ [][NextPF]_vars

\* Both entry points of the module.
SpecAll == (Init \/ InitPF) /\ [][Next]_vars

\* The characters type codes are made of: those get_type_size knows, three
\* digits, the sign str::parse accepts, and a character it does not know.
CodeChars == {"Q", "q", "d", "I", "i", "f", "H", "h", "B", "b", "c", "s",
              "0", "1", "2", "+", "x"}

\* Every type code of up to MaxCodeLen characters, the empty one included.
CodeStrings == Seqs(CodeChars, MaxCodeLen)

\* parse_fields on a schema of one field, whose type code is any code string,
\* and a payload of no byte or of eight bytes.
InitTS ==
    /\ field_defs \in {<<[name |-> n, type |-> t]>> : n \in {"A", "TRASH", "FILE_CONTENTS"},
                                                        t \in CodeStrings}
    /\ payload \in {<<>>, <<42, 42, 42, 42, 42, 42, 42, 42>>}
    /\ pf = EntryFrame
    /\ stream = <<>>
    /\ registry = <<>>
    /\ pos = 0
    /\ last_read = [want |-> 0, got |-> 0]
    /\ st = "Direct"
    /\ log_type = 0
    /\ length = 0
    /\ messages = <<>>
    /\ warnings = <<>>
    /\ total_skipped_fields = 0
    /\ result = Running

SpecTS == InitTS /\ [][NextPF]_vars

\* The one- and two-byte integer type codes.
IntCodes == {<<"B">>, <<"b">>, <<"H">>, <<"h">>}

\* parse_fields on a schema of one integer field of one or two bytes and a
\* payload of exactly its width, holding any bytes.
InitRT ==
    /\ field_defs \in {<<[name |-> "A", type |-> t]>> : t \in IntCodes}
    /\ payload \in [1..get_type_size(field_defs[1].type) -> 0..255]
    /\ pf = EntryFrame
    /\ stream = <<>>
    /\ registry = <<>>
    /\ pos = 0
    /\ last_read = [want |-> 0, got |-> 0]
    /\ st = "Direct"
    /\ log_type = 0
    /\ length = 0
    /\ messages = <<>>
    /\ warnings = <<>>
    /\ total_skipped_fields = 0
    /\ result = Running

NextRT == PF_Read \/ PF_Return

SpecRT == InitRT /\ [][NextRT]_vars

(***************************************************************************)
(* What the properties below are stated with.                              *)
(***************************************************************************)
SkipOnlyNames == {"TRASH", "PADDING", "RESERVED"}

\* Every field resolves to a fixed width and none is the tail field.
FixedSchema(defs) ==
    \A k \in 1..Len(defs) :
        /\ get_type_size(defs[k].type) # None
        /\ ~(defs[k].name = "FILE_CONTENTS" /\ defs[k].type = <<"c">>)

RECURSIVE SumWidths(_)
SumWidths(defs) ==
    IF defs = <<>> THEN 0 ELSE get_type_size(Head(defs).type) + SumWidths(Tail(defs))

\* The names of the fields of defs that are not skip-only, in schema order.
RECURSIVE NonSkipNames(_)
NonSkipNames(defs) ==
    IF defs = <<>> THEN <<>>
    ELSE (IF Head(defs).name \in SkipOnlyNames THEN <<>> ELSE <<Head(defs).name>>)
         \o NonSkipNames(Tail(defs))

PairNames(pairs) == [k \in 1..Len(pairs) |-> pairs[k][1]]

\* C1: for a schema of resolvable fixed-width fields without a tail field and a
\* payload of exactly the summed width, parse_fields returns Ok with no warning,
\* one pair per non-skip field in schema order, and the cursor at the payload end.
C1_ExactPayloadDecodesCleanly ==
    (FixedSchema(field_defs) /\ Len(payload) = SumWidths(field_defs))
        => /\ pf.pc # "err"
           /\ pf.pc = "ok"
                => /\ pf.warnings = <<>>
                   /\ PairNames(pf.parsed) = NonSkipNames(field_defs)
                   /\ pf.cursor = Len(payload)

\* A two-field schema with a value field and a skip-only field decoded from a
\* payload of exactly its three bytes.
C1_Witness ==
    /\ pf.pc = "ok"
    /\ FixedSchema(field_defs)
    /\ Len(field_defs) = 2
    /\ Len(payload) = SumWidths(field_defs)
    /\ Len(payload) = 3
    /\ Len(pf.parsed) = 1
    /\ pf.skip_count = 1

\* C2: extract_messages returns Ok only when the stream ended with no byte of a
\* type ID left; one byte of a type ID is a fatal error.
C2_OkOnlyAtMessageBoundary ==
    st = "Done" => last_read = [want |-> 2, got |-> 0]

\* C3: a stream that ends inside the header, inside the length or inside the
\* payload makes extract_messages return an error; Done is entered only from
\* AwaitingTypeId, and a failed run stays failed.
C3_TruncationIsFatal ==
    /\ [](/\ (st = "Failed") = (result.kind = "Err")
          /\ (st = "Done") = (result.kind = "Ok"))
    /\ [][/\ (st = "AwaitingHeader" /\ Len(stream) - pos < 4) => st' = "Failed"
          /\ (st = "ReadingLength" /\ Len(stream) - pos < 2) => st' = "Failed"
          /\ (st = "ReadingPayload" /\ Len(stream) - pos < length) => st' = "Failed"
          /\ st' = "Done" => st = "AwaitingTypeId"
          /\ st = "Failed" => st' = "Failed"]_vars

\* A payload of three declared bytes of which one is present, after one decoded message.
C3_Witness ==
    /\ st = "Failed"
    /\ result.error = [type |-> "Io", io |-> "UnexpectedEof"]
    /\ last_read = [want |-> 3, got |-> 1]
    /\ Len(messages) = 1

\* The complete frames in the bytes that follow the header.
RECURSIVE FramesIn(_)
FramesIn(b) ==
    IF Len(b) < 4 \/ Len(b) < 4 + U16(SubSeq(b, 3, 4)) THEN <<>>
    ELSE LET n == U16(SubSeq(b, 3, 4))
         IN  <<[log_type |-> U16(SubSeq(b, 1, 2)), payload |-> SubSeq(b, 5, 4 + n)]>>
             \o FramesIn(SubSeq(b, 5 + n, Len(b)))

\* The frames the reader has consumed.
Consumed == FramesIn(SubSeq(stream, 5, pos))

IsKnown(frame) == NatToString(frame.log_type) \in DOMAIN registry

\* The frames whose type ID has a registry entry, in stream order.
RECURSIVE Known(_)
Known(frames) ==
    IF frames = <<>> THEN <<>>
    ELSE (IF IsKnown(Head(frames)) THEN <<Head(frames)>> ELSE <<>>) \o Known(Tail(frames))

DecodeOf(frame) ==
    parse_fields(frame.payload, registry[NatToString(frame.log_type)].fields)

MessageOf(frame) ==
    [log_type |-> frame.log_type, name |-> registry[NatToString(frame.log_type)].name,
     fields |-> DecodeOf(frame).parsed]

RECURSIVE WarningsOf(_)
WarningsOf(frames) ==
    IF frames = <<>> THEN <<>>
    ELSE LET f == Head(frames)
             w == DecodeOf(f).warnings
         IN  [k \in 1..Len(w) |->
                 [log_type |-> f.log_type, name |-> registry[NatToString(f.log_type)].name,
                  warn |-> w[k]]]
             \o WarningsOf(Tail(frames))

RECURSIVE SkippedOf(_)
SkippedOf(frames) ==
    IF frames = <<>> THEN 0
    ELSE DecodeOf(Head(frames)).skip_count + SkippedOf(Tail(frames))

\* C4: a framed message whose type ID has no registry entry adds no message and no
\* warning and leaves the skip total unchanged, its payload bytes are consumed,
\* and the output is that of the frames with a registry entry alone.
C4_UnknownTypeIsSkipped ==
    /\ [](st \in {"AwaitingTypeId", "Done"}
            => /\ messages = [k \in 1..Len(Known(Consumed)) |-> MessageOf(Known(Consumed)[k])]
               /\ warnings = WarningsOf(Known(Consumed))
               /\ total_skipped_fields = SkippedOf(Known(Consumed)))
    /\ [][(/\ st = "ReadingPayload"
           /\ NatToString(log_type) \notin DOMAIN registry
           /\ Len(stream) - pos >= length
           /\ st' # "Failed")
            => /\ st' = "AwaitingTypeId"
               /\ pos' = pos + length
               /\ UNCHANGED <<messages, warnings, total_skipped_fields>>]_vars

\* A run that ended after an unknown message with a payload and then a known one.
C4_Witness ==
    /\ st = "Done"
    /\ Len(Consumed) = 2
    /\ ~IsKnown(Consumed[1])
    /\ Len(Consumed[1].payload) > 0
    /\ IsKnown(Consumed[2])
    /\ Len(messages) = 1
    /\ messages[1].fields # <<>>

Least(a, b) == IF a < b THEN a ELSE b

\* Field k is not skip-only and its width reaches past the end of a payload of n
\* bytes from the position the fields before it lead to.
OverrunsAt(defs, n, k) ==
    /\ defs[k].name \notin SkipOnlyNames
    /\ Least(SumWidths(SubSeq(defs, 1, k - 1)), n) + get_type_size(defs[k].type) > n

\* The first such field, or 0.
FirstOverrun(defs, n) ==
    IF \E k \in 1..Len(defs) : OverrunsAt(defs, n, k)
    THEN CHOOSE k \in 1..Len(defs) :
            OverrunsAt(defs, n, k) /\ \A j \in 1..(k - 1) : ~OverrunsAt(defs, n, j)
    ELSE 0

\* The payload p filled up with byte b to the summed width of defs.
Padded(p, defs, b) == p \o [k \in 1..(SumWidths(defs) - Len(p)) |-> b]

C6_LongPayloadWarnsOnce ==
    (pf.pc = "ok" /\ FixedSchema(field_defs) /\ Len(payload) > SumWidths(field_defs))
        => /\ PairNames(pf.parsed) = NonSkipNames(field_defs)
           /\ pf.warnings =
                <<[kind |-> "NotFullyConsumed", payload_len |-> Len(payload),
                   read |-> SumWidths(field_defs),
                   remaining |-> Len(payload) - SumWidths(field_defs)]>>

\* A one-field schema of width two on a payload of three bytes.
C6_Witness ==
    /\ pf.pc = "ok"
    /\ FixedSchema(field_defs)
    /\ Len(field_defs) = 1
    /\ SumWidths(field_defs) = 2
    /\ Len(payload) = 3
    /\ Len(pf.parsed) = 1

\* C7: a field named TRASH, PADDING or RESERVED never yields a pair, whatever its
\* type code; when its width w fits, the cursor moves on by exactly w and the
\* pairs stay as they are.
C7_SkipOnlyFields ==
    /\ [](\A k \in 1..Len(pf.parsed) : pf.parsed[k][1] \notin SkipOnlyNames)
    /\ [][(/\ pf.pc = "loop"
           /\ pf.i <= Len(field_defs)
           /\ field_defs[pf.i].name \in SkipOnlyNames)
            => /\ pf'.parsed = pf.parsed
               /\ LET w == get_type_size(field_defs[pf.i].type)
                  IN  (w # None /\ pf.cursor + w <= Len(payload))
                        => pf'.cursor = pf.cursor + w]_vars

\* A skip-only field of width two skipped in bounds after a decoded value.
C7_Witness ==
    /\ pf.i = 3
    /\ Len(field_defs) = 2
    /\ field_defs[2].name \in SkipOnlyNames
    /\ get_type_size(field_defs[2].type) = 2
    /\ Len(pf.parsed) = 1
    /\ pf.skip_count = 1
    /\ pf.cursor = get_type_size(field_defs[1].type) + 2
    /\ pf.warnings = <<>>

\* C8: a terminal field FILE_CONTENTS of type "c" yields, at every cursor position
\* up to and including the payload length, a pair whose value is the rest of the
\* payload with trailing NULs trimmed, puts the cursor at the payload end and
\* adds no warning.
C8_TailFieldReadsRest ==
    [][(/\ pf.pc = "loop"
        /\ pf.i = Len(field_defs)
        /\ field_defs[pf.i] = [name |-> "FILE_CONTENTS", type |-> <<"c">>])
         => /\ pf'.parsed =
                 Append(pf.parsed,
                        <<"FILE_CONTENTS",
                          ReadText(SubSeq(payload, pf.cursor + 1, Len(payload)))>>)
            /\ pf'.cursor = Len(payload)
            /\ pf'.warnings = pf.warnings]_vars

WarningKinds == {warnings[k].warn.kind : k \in 1..Len(warnings)}

NamesOfFirst(pairs, defs, n) == PairNames(pairs) = NonSkipNames(SubSeq(defs, 1, n))

\* C10: the pairs of a decoded message are, by name and in schema order, the
\* non-skip fields that come before the field at which decoding stopped (all of
\* them when it did not stop).
C10_PairsMatchSchemaPrefix ==
    /\ pf.pc \in {"loop", "break", "ok"} => NamesOfFirst(pf.parsed, field_defs, pf.i - 1)
    /\ pf.pc = "ok" /\ Len(pf.parsed) < Len(NonSkipNames(field_defs))
         => pf.i <= Len(field_defs)
    /\ \A k \in 1..Len(messages) :
          \E n \in 0..Len(registry[NatToString(messages[k].log_type)].fields) :
              NamesOfFirst(messages[k].fields,
                           registry[NatToString(messages[k].log_type)].fields, n)

\* A decoded message with one pair out of two value fields, stopped at the second.
C10_Witness ==
    /\ st = "Done"
    /\ Len(messages) = 2
    /\ Len(messages[1].fields) = 1
    /\ Len(NonSkipNames(registry[NatToString(messages[1].log_type)].fields)) = 2
    /\ Len(messages[2].fields) = 2

\* The width the grammar of type codes gives t, or None.
GrammarWidth(t) ==
    IF t \in {<<"Q">>, <<"q">>, <<"d">>} THEN 8
    ELSE IF t \in {<<"I">>, <<"i">>, <<"f">>} THEN 4
    ELSE IF t \in {<<"H">>, <<"h">>} THEN 2
    ELSE IF t \in {<<"B">>, <<"b">>} THEN 1
    ELSE IF Len(t) >= 1 /\ \E ch \in {"c", "B", "b"} : \A k \in 1..Len(t) : t[k] = ch
    THEN Len(t)
    ELSE IF /\ Len(t) >= 2
            /\ t[Len(t)] = "s"
            /\ \A k \in 1..(Len(t) - 1) : t[k] \in {"0", "1", "2", "3", "4", "5", "6", "7", "8", "9"}
    THEN DigitsValue(SubSeq(t, 1, Len(t) - 1))
    ELSE None

\* C11: get_type_size returns 8 for Q/q/d, 4 for I/i/f, 2 for H/h, 1 for B/b, N
\* for N >= 1 repeated 'c', 'B' or 'b', N for the digits of N followed by 's',
\* and None for every other string, the empty string and "s" included.
C11_ResolverFollowsGrammar ==
    \A k \in 1..Len(field_defs) :
        get_type_size(field_defs[k].type) = GrammarWidth(field_defs[k].type)

\* 2^n
RECURSIVE Pow2(_)
Pow2(n) == IF n = 0 THEN 1 ELSE 2 * Pow2(n - 1)

\* The integer types of the round trip: signedness and width in bytes.
IsSignedCode(t) == t \in {<<"b">>, <<"h">>}
CodeBytes(t) == IF t \in {<<"B">>, <<"b">>} THEN 1 ELSE 2

\* The values of the integer type t.
ValuesOf(t) ==
    IF IsSignedCode(t)
    THEN (0 - Pow2(8 * CodeBytes(t) - 1))..(Pow2(8 * CodeBytes(t) - 1) - 1)
    ELSE 0..(Pow2(8 * CodeBytes(t)) - 1)

\* The little-endian (two's complement) encoding of v in the type t.
EncodeLE(t, v) ==
    LET u == IF v < 0 THEN v + Pow2(8 * CodeBytes(t)) ELSE v
    IN  [k \in 1..CodeBytes(t) |-> (u \div Pow2(8 * (k - 1))) % 256]

\* The value of type t that the little-endian bytes le encode.
DecodeLE(t, le) ==
    LET u == IF Len(le) = 1 THEN le[1] ELSE le[1] + 256 * le[2]
    IN  IF IsSignedCode(t) /\ u >= Pow2(8 * Len(le) - 1) THEN u - Pow2(8 * Len(le)) ELSE u

\* The canonical base-10 text of an integer.
CanonicalText(v) == IF v < 0 THEN <<45>> \o NatToString(0 - v) ELSE NatToString(v)

\* C12: for the types B, b, H and h, decoding the little-endian encoding of a
\* value of the type yields the value's canonical base-10 text: two's
\* complement signed for b and h, unsigned for B and H.
C12_IntegerRoundTrip ==
    (pf.pc = "ok" /\ Len(field_defs) = 1 /\ field_defs[1].type \in IntCodes
        /\ field_defs[1].name = "A" /\ Len(payload) = CodeBytes(field_defs[1].type))
    => LET t == field_defs[1].type
           v == DecodeLE(t, payload)
       IN  /\ v \in ValuesOf(t)
           /\ EncodeLE(t, v) = payload
           /\ pf.parsed = <<<<"A", CanonicalText(v)>>>>
           /\ pf.warnings = <<>>

\* The least 16-bit signed value, encoded 00 80, has been decoded as -32768.
C12_Witness ==
    /\ pf.pc = "ok"
    /\ field_defs = <<[name |-> "A", type |-> <<"h">>]>>
    /\ payload = EncodeLE(<<"h">>, 0 - 32768)
    /\ pf.parsed = <<<<"A", <<45, 51, 50, 55, 54, 56>>>>>>

\* C13: on success every warning extract_messages returns is a warning of
\* parse_fields prefixed with the type ID and the registry name of the message
\* it came from, in stream order, and the skip total returned is the sum of the
\* skip counts of the decoded messages.
C13_WarningsPrefixedSkipsSummed ==
    /\ [][(st = "Decoding" /\ pf.pc = "ok")
            => /\ Len(warnings') = Len(warnings) + Len(pf.warnings)
               /\ SubSeq(warnings', 1, Len(warnings)) = warnings
               /\ \A k \in 1..Len(pf.warnings) :
                      LET w == warnings'[Len(warnings) + k]
                      IN  /\ w.log_type = log_type
                          /\ w.name = registry[NatToString(log_type)].name
                          /\ w.warn = pf.warnings[k]
               /\ total_skipped_fields' = total_skipped_fields + pf.skip_count]_vars
    /\ [](result.kind = "Ok"
            => /\ result.warnings = WarningsOf(Known(Consumed))
               /\ result.skipped = SkippedOf(Known(Consumed))
               /\ result.warnings = warnings
               /\ result.skipped = total_skipped_fields)

\* A run that ended after two decoded messages of different types, both with
\* warnings, and with skipped fields.
C13_Witness ==
    /\ result.kind = "Ok"
    /\ Len(result.messages) = 2
    /\ result.skipped >= 1
    /\ \E j, k \in 1..Len(result.warnings) :
           /\ j < k
           /\ result.warnings[j].log_type = result.messages[1].log_type
           /\ result.warnings[k].log_type = result.messages[2].log_type
           /\ result.warnings[j].name # result.warnings[k].name

\* The kinds of the warnings of a sequence of parse_fields warnings.
KindsIn(ws) == {ws[k].kind : k \in 1..Len(ws)}

\* C14: in every reachable state of parse_fields the cursor is between 0 and the
\* payload length inclusive, no read or skip goes to a byte at or beyond the
\* payload length (no read fails, no seek passes the end), and the
\* "Read past payload end" warning is never emitted.
C14_CursorStaysInPayload ==
    /\ pf.cursor >= 0
    /\ pf.cursor <= Len(payload)
    /\ pf.pc # "err"
    /\ "ReadPast" \notin KindsIn(pf.warnings)
    /\ \A k \in 1..Len(warnings) : warnings[k].warn.kind # "ReadPast"

\* A call that returned after a skip was clamped to the end of a payload that
\* still had bytes left.
C14_Witness ==
    /\ pf.pc = "ok"
    /\ \E k \in 1..Len(pf.warnings) :
           pf.warnings[k].kind = "SkipExceeds" /\ pf.warnings[k].remaining > 0
    /\ pf.cursor = Len(payload)

\* parse_fields is at the top of its loop with a field left to look at.
AtField == pf.pc = "loop" /\ pf.i <= Len(field_defs)

\* C15: at a non-skip field whose type code is unresolvable parse_fields appends
\* one warning and stops: no pair for that field or a later one, no later
\* skip-only field moves the cursor or is counted, and the pairs decoded before
\* are returned unchanged.
C15_UnresolvableFieldStops ==
    /\ [][(/\ AtField
           /\ field_defs[pf.i].name \notin SkipOnlyNames
           /\ get_type_size(field_defs[pf.i].type) = None)
            => pf' = [pf EXCEPT !.warnings = Append(@, [kind |-> "UnknownSize",
                                                         name |-> field_defs[pf.i].name,
                                                         type |-> field_defs[pf.i].type]),
                                !.pc = "break"]]_vars
    /\ [][pf.pc = "break"
            => /\ pf'.pc = "ok"
               /\ pf'.parsed = pf.parsed
               /\ pf'.cursor = pf.cursor
               /\ pf'.skip_count = pf.skip_count
               /\ pf'.i = pf.i]_vars

\* A call returned after an unresolvable field and, never reached, a skip-only
\* field of one byte, over a payload with a byte left.
C15_Witness ==
    /\ pf.pc = "ok"
    /\ Len(field_defs) = 2
    /\ field_defs[1].name \notin SkipOnlyNames
    /\ get_type_size(field_defs[1].type) = None
    /\ field_defs[2].name \in SkipOnlyNames
    /\ get_type_size(field_defs[2].type) = 1
    /\ Len(payload) >= 1
    /\ pf.i = 1
    /\ pf.cursor = 0
    /\ pf.skip_count = 0
    /\ pf.parsed = <<>>
    /\ pf.warnings[1].kind = "UnknownSize"

\* C16: at a skip-only field whose type code is unresolvable parse_fields
\* appends one warning, leaves the cursor and the pairs as they are, and goes
\* on with the next field at the same cursor rather than stopping.
C16_UnresolvableSkipContinues ==
    [][(/\ AtField
        /\ field_defs[pf.i].name \in SkipOnlyNames
        /\ get_type_size(field_defs[pf.i].type) = None)
         => /\ pf'.warnings = Append(pf.warnings, [kind |-> "SkipUnknownSize",
                                                   name |-> field_defs[pf.i].name,
                                                   type |-> field_defs[pf.i].type])
            /\ pf'.cursor = pf.cursor
            /\ pf'.parsed = pf.parsed
            /\ pf'.pc = "loop"
            /\ pf'.i = pf.i + 1]_vars

\* A call returned after an unresolvable skip-only field and then a value field
\* decoded from the first byte of the payload.
C16_Witness ==
    /\ pf.pc = "ok"
    /\ Len(field_defs) = 2
    /\ field_defs[1].name \in SkipOnlyNames
    /\ get_type_size(field_defs[1].type) = None
    /\ field_defs[2] = [name |-> "A", type |-> <<"b">>]
    /\ payload = <<42>>
    /\ pf.parsed = <<<<"A", <<52, 50>>>>>>
    /\ Len(pf.warnings) = 1
    /\ pf.warnings[1].kind = "SkipUnknownSize"

CountKind(ws, k) == Cardinality({j \in 1..Len(ws) : ws[j].kind = k})

\* C18: when parse_fields stops early (overrun or unresolvable non-skip field)
\* with k > 0 bytes after the cursor, it emits the "not fully consumed" warning
\* stating k right after the warning of the stop; in general that warning is
\* emitted exactly once if the final cursor is below the payload length and not
\* at all otherwise.
C18_LeftoverWarnedOnce ==
    /\ [][(pf.pc = "break" \/ (pf.pc = "loop" /\ pf.i > Len(field_defs)))
            => /\ pf'.cursor = pf.cursor
               /\ pf'.warnings =
                     IF pf.cursor < Len(payload)
                     THEN Append(pf.warnings, [kind |-> "NotFullyConsumed",
                                               payload_len |-> Len(payload),
                                               read |-> pf.cursor,
                                               remaining |-> Len(payload) - pf.cursor])
                     ELSE pf.warnings]_vars
    /\ [](pf.pc \in {"loop", "break"} => CountKind(pf.warnings, "NotFullyConsumed") = 0)
    /\ [](pf.pc = "ok"
            => /\ CountKind(pf.warnings, "NotFullyConsumed")
                    = (IF pf.cursor < Len(payload) THEN 1 ELSE 0)
               /\ (pf.i <= Len(field_defs) /\ pf.cursor < Len(payload))
                    => LET n == Len(pf.warnings)
                       IN  /\ n >= 2
                           /\ pf.warnings[n - 1].kind \in {"ReadExceeds", "UnknownSize"}
                           /\ pf.warnings[n - 1].name = field_defs[pf.i].name
                           /\ pf.warnings[n].kind = "NotFullyConsumed"
                           /\ pf.warnings[n].remaining = Len(payload) - pf.cursor)

\* A call stopped at its second field, a two-byte field with one byte left: the
\* overrun warning, then the leftover warning stating one byte.
C18_Witness ==
    /\ pf.pc = "ok"
    /\ Len(field_defs) = 2
    /\ pf.i = 2
    /\ Len(pf.parsed) = 1
    /\ Len(pf.warnings) = 2
    /\ pf.warnings[1].kind = "ReadExceeds"
    /\ pf.warnings[2].kind = "NotFullyConsumed"
    /\ pf.warnings[2].remaining = 1

\* C19: skip_count is the number of skip-only fields reached before any early
\* stop whose type code resolved, whether the skip was in bounds or clamped; a
\* skip-only field with an unresolvable type code is not counted.
C19_SkipCountCountsResolvedSkips ==
    pf.pc \in {"loop", "break", "ok"}
        => pf.skip_count =
               Cardinality({k \in 1..(pf.i - 1) :
                               /\ field_defs[k].name \in SkipOnlyNames
                               /\ get_type_size(field_defs[k].type) # None})

\* A call returned after a clamped skip and a skip-only field of unknown size,
\* in either order: one of the two is counted.
C19_Witness ==
    /\ pf.pc = "ok"
    /\ Len(field_defs) = 2
    /\ \A k \in 1..2 : field_defs[k].name \in SkipOnlyNames
    /\ \E k \in 1..2 : get_type_size(field_defs[k].type) = None
    /\ \E k \in 1..2 : get_type_size(field_defs[k].type) > Len(payload)
    /\ pf.skip_count = 1
    /\ CountKind(pf.warnings, "SkipUnknownSize") = 1
    /\ CountKind(pf.warnings, "SkipExceeds") = 1

\* C20: a fatal stream failure discards all partial output: whenever
\* extract_messages fails, the caller receives the error alone and none of the
\* messages, warnings or skip count gathered so far.
C20_FailureDiscardsOutput ==
    /\ st = "Failed" <=> result.kind = "Err"
    /\ result.kind = "Err"
        => /\ DOMAIN result = {"kind", "error"}
           /\ result.error.type \in {"Io", "ParsingError"}
           /\ DOMAIN result.error \in {{"type", "io"}, {"type", "log_type", "name"}}
    /\ result.kind = "Ok" => st = "Done"

\* A run that failed after it had gathered a message, a warning and a skipped
\* field.
C20_Witness ==
    /\ st = "Failed"
    /\ result.kind = "Err"
    /\ Len(messages) >= 1
    /\ Len(warnings) >= 1
    /\ total_skipped_fields >= 1

\* C21: the resolver and the decoder stay in sync: a non-skip, non-tail field
\* whose type code get_type_size resolves to width w (and that fits the
\* payload) is decoded by a branch that advances the cursor by exactly w and
\* yields one pair, so the placeholders "[unsupported]" and "[error]" and their
\* warnings are never produced.
C21_ResolverAndDecoderInSync ==
    /\ [][(/\ AtField
           /\ field_defs[pf.i].name \notin SkipOnlyNames
           /\ ~(field_defs[pf.i].name = "FILE_CONTENTS" /\ field_defs[pf.i].type = <<"c">>)
           /\ get_type_size(field_defs[pf.i].type) # None
           /\ pf.cursor + get_type_size(field_defs[pf.i].type) <= Len(payload))
            => /\ pf'.cursor = pf.cursor + get_type_size(field_defs[pf.i].type)
               /\ Len(pf'.parsed) = Len(pf.parsed) + 1
               /\ SubSeq(pf'.parsed, 1, Len(pf.parsed)) = pf.parsed
               /\ pf'.parsed[Len(pf'.parsed)][1] = field_defs[pf.i].name
               /\ pf'.warnings = pf.warnings
               /\ pf'.pc = "loop"
               /\ pf'.i = pf.i + 1]_vars
    /\ [](/\ KindsIn(pf.warnings) \cap {"InternalError", "Unsupported"} = {}
          /\ \A k \in 1..Len(pf.parsed) :
                 pf.parsed[k][2] \notin {ErrorText, UnsupportedText})

\* A field of type "2s", resolved by the numeral arm of get_type_size, decoded
\* as the first two of eight bytes.
C21_Witness ==
    /\ pf.pc = "ok"
    /\ field_defs = <<[name |-> "A", type |-> <<"2", "s">>]>>
    /\ Len(payload) = 8
    /\ pf.cursor = 2
    /\ pf.parsed = <<<<"A", <<42, 42>>>>>>
    /\ KindsIn(pf.warnings) = {"NotFullyConsumed"}

====
